---- MODULE Spec2Model ----
(***************************************************************************)
(* Model of the ArcticPollutionMonitor patrol/scan scheduler               *)
(* (src/components/MonitorPage.tsx, second component, lines 197-487), of   *)
(* the classification adapter analyzeImage (src/services/geminiService.ts) *)
(* and of the detection filter.                                            *)
(*                                                                         *)
(* Conventions.                                                            *)
(*  - Angles are integers in thousandths of a degree, confidences are      *)
(*    integers in thousandths (0.75 is 750); the confidences the synthetic *)
(*    adapter computes are IEEE 754 doubles.                               *)
(*  - The Russian string literals of the source are written in ASCII:      *)
(*    Oil = 'Нефтяное', Chemical = 'Химическое', Physical = 'Физическое',  *)
(*    Low/Medium/High = 'Низкий'/'Средний'/'Высокий' (hazard levels),      *)
(*    LowConfidence/MediumConfidence/HighConfidence = 'Низкая'/'Средняя'/  *)
(*    'Высокая' (confidence levels), Water = 'Вода', Soil = 'Почва'.       *)
(*  - React state updates made by one handler are batched; the render and  *)
(*    the passive effect that follow a handler are part of the action of   *)
(*    that handler (operator SimulationLoop).                              *)
(*  - The specifications share the variables: Spec (the scheduler),       *)
(*    SpecAdapter (one analyzeImage call at a time, with its retry loop),  *)
(*    SpecFilter (the filter over the stores scans can leave), SpecLog     *)
(*    (the log with the size of the source), SpecSession (the scheduler    *)
(*    with the filter panel in use) and SpecPatrol (the scheduler started  *)
(*    and never stopped, with fairness of the timer). In Spec a            *)
(*    classification call is a pending promise that settles with one of    *)
(*    the outcomes analyzeImage and imageToBase64 can have. SpecGenerator  *)
(*    is one call of the synthetic adapter generateMockPollutionData       *)
(*    (src/services/mockPollutionService.ts), SpecMock the scheduler of    *)
(*    the synthetic variant (MonitorPage.tsx, first component, lines       *)
(*    1-196) and SpecLegacy the scheduler with the video frame capture     *)
(*    (src/unnamed/part_005).                                              *)
(***************************************************************************)
EXTENDS Integers, Sequences, FiniteSets, TLC

VARIABLES
  appState,               \* useState<AppState>            MonitorPage.tsx:244
  satellitePosition,      \* useState<SatellitePosition>   MonitorPage.tsx:242
  pollutionData,          \* useState<PollutionData[]>     MonitorPage.tsx:243
  logs,                   \* useState<LogEntry[]>          MonitorPage.tsx:245
  filters,                \* useState<Filters>             MonitorPage.tsx:246
  simulationIntervalRef,  \* useRef<number|null>           MonitorPage.tsx:251
  scanCounterRef,         \* useRef<number>                MonitorPage.tsx:252
  isAnalyzingRef,         \* useRef<boolean>               MonitorPage.tsx:253
  patrolDirectionRef,     \* useRef<'forward'|'backward'>  MonitorPage.tsx:345
  intervals,              \* number of live window.setInterval timers
  pending,                \* analyzePosition promises not yet settled
  callsStarted,           \* number of analyzePosition calls made so far
  mergeOrder,             \* the calls whose detections were merged, in order
  currentSatelliteImage,  \* useState<string>: the bbox of the image URL  :247
  lastOp,                 \* the operation that produced the current state
  adapterPc,              \* where the current analyzeImage call stands
  attempt,                \* loop variable of analyzeImage  geminiService.ts:41
  replies,                \* what the service answered to this call's requests
  delays,                 \* the backoff delays this call has waited (ms)
  adapterOutcome,         \* what analyzeImage returned or threw
  now,                    \* the clock Date.now() reads (ms)
  imageIndexRef,          \* useRef(0) of the mock variant  MonitorPage.tsx:32
  analysisResult,         \* what generateMockPollutionData returned last
  centres,                \* the centres it chose for these detections
  asyncSteps              \* the async runSimulationStep calls of the legacy
                          \* App suspended at each of their two awaits

schedulerVars == <<appState, satellitePosition, pollutionData, logs,
                   simulationIntervalRef, scanCounterRef, isAnalyzingRef,
                   patrolDirectionRef, intervals, pending, callsStarted,
                   mergeOrder, currentSatelliteImage>>

adapterVars == <<adapterPc, attempt, replies, delays, adapterOutcome>>

\* state of the mock variant and of the legacy App only
variantVars == <<now, imageIndexRef, analysisResult, centres, asyncSteps>>

vars == <<schedulerVars, filters, lastOp, adapterVars, variantVars>>

----------------------------------------------------------------------------
(* Bounds of the model *)

\* ticks are explored up to this value of the scan counter
MaxScan == 181
\* the configured route gives totalSteps = 10003; legs are shortened
MaxLegSteps == 3
\* number of classification calls explored in one behaviour
MaxCalls == 2
\* the log keeps 100 entries in the source; the model keeps MaxLog, except in
\* SpecLog, which keeps the 100 of the source
MaxLog == 2
\* number of addLog calls explored in SpecLog
MaxLogCalls == 110

----------------------------------------------------------------------------
(* Program constants *)

Stopped == "STOPPED"
Idle == "IDLE"
Scanning == "SCANNING"
Analyzing == "ANALYZING"
AppState == {Stopped, Idle, Scanning, Analyzing}

PATROL_HEADING == 135
ANALYSIS_PERIOD == 90

PATROL_START_POINT ==
  [lat |-> 83000, lng |-> -70000, heading |-> 135, stepIndex |-> 0]

PATROL_END_POINT == [lat |-> 70000, lng |-> -20000]

\* prev.slice(0, 99) of addLog
LOG_KEPT == 99

\* the monitored region, in thousandths of a degree
ARCTIC_EAST == 32076
ARCTIC_WEST == -168825
ARCTIC_SOUTH == 66550
ARCTIC_NORTH == 90000

\* the width of the footprint in km, and the km of one degree of latitude in
\* hundredths of a km (111.32)
SCAN_KM == 35
KM_PER_DEG_LAT == 11132

\* the bbox of the URL the image state starts with: -71,82,-69,84
INITIAL_IMAGE ==
  [minLng |-> -71000, minLat |-> 82000, maxLng |-> -69000, maxLat |-> 84000]

----------------------------------------------------------------------------
(* Helpers *)

Min(a, b) == IF a < b THEN a ELSE b

\* JavaScript's remainder: the sign follows the dividend
JsRem(a, b) == IF a >= 0 THEN a % b ELSE -((-a) % b)

\* ((x + 180) % 360 + 360) % 360 - 180, in thousandths of a degree
NormalizeLng(x) == JsRem(JsRem(x + 180000, 360000) + 360000, 360000) - 180000

----------------------------------------------------------------------------
(* The footprint of a position: the bbox of the image URL *)

Max(a, b) == IF a > b THEN a ELSE b

\* cos of 66, 67, ..., 90 degrees, in units of 0.00001
COS_TABLE ==
  <<40674, 39073, 37461, 35837, 34202, 32557, 30902, 29237, 27564, 25882,
    24192, 22495, 20791, 19081, 17365, 15643, 13917, 12187, 10453, 8716,
    6976, 5234, 3490, 1745, 0>>

\* Math.cos(lat * Math.PI / 180) in units of 0.00001, for 66 <= lat <= 90
\* degrees: the table, linearly interpolated between whole degrees
Cos(lat) ==
  LET d == lat \div 1000
      f == lat % 1000
  IN  IF f = 0 THEN COS_TABLE[d - 65]
      ELSE COS_TABLE[d - 65]
             + ((COS_TABLE[d - 64] - COS_TABLE[d - 65]) * f) \div 1000

\* SCAN_KM / KM_PER_DEG_LAT in units of 0.00001 degree
LatSpanE5 == (SCAN_KM * 10000000) \div KM_PER_DEG_LAT

\* latSpan and lngSpan in thousandths of a degree
latSpan == LatSpanE5 \div 100
lngSpan(lat) == (LatSpanE5 * 1000) \div Cos(lat)

HalfSpanNegated(span) == -(span \div 2)

\* span / 2
HalfSpan(span) == span \div 2

\* [minLng, minLat, maxLng, maxLat] around the point p, each side clamped to
\* the region
Footprint(p) ==
  [minLng |-> Max(ARCTIC_WEST, p.lng - HalfSpan(lngSpan(p.lat))),
   minLat |-> Max(ARCTIC_SOUTH, p.lat - HalfSpan(latSpan)),
   maxLng |-> Min(ARCTIC_EAST, p.lng + HalfSpan(lngSpan(p.lat))),
   maxLat |-> Min(ARCTIC_NORTH, p.lat + HalfSpan(latSpan))]

\* the bbox of runSimulationStep for the lat and lng it has computed (the
\* point is bound once, then the four sides are taken from it)
BBox(lat, lng) ==
  CHOOSE b \in {Footprint(p) : p \in {[lat |-> lat, lng |-> lng]}} : TRUE

----------------------------------------------------------------------------
(* Log: addLog keeps the new entry in front of the newest MaxLog - 1 older ones
   (the source keeps 99: prev.slice(0, 99)) *)

LogEntry(message, type) == [message |-> message, type |-> type]

PushLogUnbounded(entry, prev, kept) == <<entry>> \o prev

\* [entry, ...prev.slice(0, kept)]
PushLog(entry, prev, kept) ==
  <<entry>> \o SubSeq(prev, 1, Min(Len(prev), kept))

addLog(s, message, type) ==
  [s EXCEPT !.logs = PushLog(LogEntry(message, type), @, MaxLog - 1)]

----------------------------------------------------------------------------
(* The scheduler state as one record, so that the steps of one handler
   compose *)

Snapshot ==
  [appState |-> appState, satellitePosition |-> satellitePosition,
   pollutionData |-> pollutionData, logs |-> logs,
   simulationIntervalRef |-> simulationIntervalRef,
   scanCounterRef |-> scanCounterRef, isAnalyzingRef |-> isAnalyzingRef,
   patrolDirectionRef |-> patrolDirectionRef, intervals |-> intervals,
   pending |-> pending, callsStarted |-> callsStarted,
   mergeOrder |-> mergeOrder,
   currentSatelliteImage |-> currentSatelliteImage]

totalStepsUneven(isForward) ==
  IF isForward THEN MaxLegSteps ELSE MaxLegSteps + 1

\* totalSteps = ceil(distKm / (SPEED_KPH * INTERVAL_H)); distKm is the same
\* for both directions of the leg (dLat and dLng only change sign). For the
\* configured route distKm = 1944.89 and totalSteps = 10003; the model walks
\* legs of MaxLegSteps steps.
totalSteps(isForward) == MaxLegSteps

\* analyzePosition up to its first await: log, setAppState(Analyzing); the
\* promise stays pending until the fetch and analyzeImage settle
analyzePosition(s) ==
  LET s1 == addLog(s, "analyzing", "info")
  IN  [s1 EXCEPT !.appState = Analyzing,
                 !.callsStarted = @ + 1,
                 !.pending = @ \cup {s.callsStarted + 1}]

TurnsLate(next, total) == next > total

\* the condition of the direction switch: step >= totalSteps
Turns(next, total) == next >= total

\* the guard of the analysis branch
StartsAnalysis(shouldAnalyze, analyzing) == shouldAnalyze /\ ~analyzing

\* runSimulationStep: one patrol step, and the start of an analysis when due.
\* The updater passed to setSatellitePosition runs once per call. dataRate
\* (random telemetry) and the log texts take no part in the control flow and
\* are left out; the image URL is represented by its bbox.
runSimulationStep(s) ==
  LET counter == s.scanCounterRef + 1
      shouldAnalyze == counter % ANALYSIS_PERIOD = 0
      prev == s.satellitePosition
      isForward == s.patrolDirectionRef = "forward"
      startPoint == IF isForward THEN PATROL_START_POINT ELSE PATROL_END_POINT
      endPoint == IF isForward THEN PATROL_END_POINT ELSE PATROL_START_POINT
      dLat == endPoint.lat - startPoint.lat
      dLng == NormalizeLng(endPoint.lng - startPoint.lng)
      next == prev.stepIndex + 1
      turn == Turns(next, totalSteps(isForward))
      newDir == IF isForward THEN "backward" ELSE "forward"
      step == IF turn THEN 0 ELSE next
      lat == startPoint.lat + (dLat * step) \div totalSteps(isForward)
      lng == NormalizeLng(startPoint.lng
                          + (dLng * step) \div totalSteps(isForward))
      heading == IF isForward THEN PATROL_HEADING
                 ELSE (PATROL_HEADING + 180) % 360
      pos == [lat |-> lat, lng |-> lng, heading |-> heading,
              stepIndex |-> step]
      s1 == [s EXCEPT !.scanCounterRef = counter,
                      !.patrolDirectionRef = IF turn THEN newDir ELSE @,
                      !.satellitePosition = pos,
                      !.currentSatelliteImage = BBox(lat, lng)]
      s2 == IF turn THEN addLog(s1, "turn", "success") ELSE s1
      s3 == addLog(s2, "position", "info")
  IN  IF StartsAnalysis(shouldAnalyze, s.isAnalyzingRef)
        THEN analyzePosition([s3 EXCEPT !.appState = Scanning,
                                        !.isAnalyzingRef = TRUE])
      ELSE IF ~s.isAnalyzingRef
        THEN [s3 EXCEPT !.appState = Idle]
      ELSE s3

ClearTimerRefOnly(s) == [s EXCEPT !.simulationIntervalRef = FALSE]

\* clearInterval(simulationIntervalRef.current) when the ref is set
ClearTimer(s) ==
  IF s.simulationIntervalRef
    THEN [s EXCEPT !.intervals = @ - 1, !.simulationIntervalRef = FALSE]
    ELSE s

\* the effect's decision to run: appState is the only dependency that changes
EffectRuns(renderedState, newState) == renderedState # newState

\* the "Simulation Loop" effect, run after a render in which appState differs
\* from the appState of the previous render: cleanup of the previous effect,
\* then the body, which steps once and arms the interval; a change of appState
\* made by that step renders again and runs the effect again
RECURSIVE SimulationLoop(_, _)
SimulationLoop(rendered, s) ==
  IF ~EffectRuns(rendered, s.appState) THEN s
  ELSE LET c == ClearTimer(s)
       IN  IF c.appState = Stopped THEN c
           ELSE LET r == runSimulationStep(c)
                    a == [r EXCEPT !.intervals = @ + 1,
                                   !.simulationIntervalRef = TRUE]
                IN  SimulationLoop(c.appState, a)

----------------------------------------------------------------------------
(* What the classification service answers *)

\* a GeoJSON polygon; each ring is represented by its number of points
Polygon(rings) == [present |-> TRUE, coordinates |-> rings]
NoGeometry == [present |-> FALSE, coordinates |-> <<>>]

\* entries of the list analyzeImage returns (Partial<PollutionData>): an absent
\* string field is "", an absent confidence is 0 (both are falsy, as undefined)
rOil == [type |-> "Oil", confidence |-> 901, geometry |-> Polygon(<<5>>),
         impactArea |-> "Water", hazardLevel |-> "High"]
rChemical == [type |-> "Chemical", confidence |-> 750,
              geometry |-> Polygon(<<4>>),
              impactArea |-> "Soil", hazardLevel |-> "Low"]
rPartial == [type |-> "", confidence |-> 0, geometry |-> NoGeometry,
             impactArea |-> "", hazardLevel |-> ""]

\* an entry the response schema does not exclude: a ring without points and
\* a confidence above 1
rMalformed == [type |-> "Physical", confidence |-> 1500,
               geometry |-> Polygon(<<0>>),
               impactArea |-> "Water", hazardLevel |-> "Medium"]

ServiceResults == {<<>>, <<rOil>>, <<rChemical, rPartial, rMalformed>>}

\* how a classification call settles: analyzeImage returned a list, or
\* imageToBase64 or analyzeImage threw
Outcomes == [ok : {TRUE}, result : ServiceResults]
              \cup {[ok |-> FALSE, result |-> <<>>]}

\* v || d for strings and numbers
OrElse(v, d) == IF v = "" THEN d ELSE v
OrElseNum(v, d) == IF v = 0 THEN d ELSE v

\* result.map(p => ({...})) of analyzePosition
NewData(result) ==
  [i \in 1..Len(result) |->
     [type |-> OrElse(result[i].type, "Oil"),
      confidence |-> OrElseNum(result[i].confidence, 800),
      geometry |-> IF result[i].geometry.present THEN result[i].geometry
                   ELSE Polygon(<<>>),
      impactArea |-> OrElse(result[i].impactArea, "Water"),
      hazardLevel |-> OrElse(result[i].hazardLevel, "Medium")]]

HasDetectionsAlways(result) == TRUE

\* result.length > 0
HasDetections(result) == Len(result) > 0

MergeInFront(prev, newData) == newData \o prev

\* [...prev, ...newData] of setPollutionData
Merge(prev, newData) == prev \o newData

FinallyStateKept(s) == s.appState

\* the state the finally block of analyzePosition leaves
FinallyState(s) == Idle

\* analyzePosition after its awaits (try / catch / finally), then the
\* .finally() callback that runSimulationStep chained on the promise
analyzePositionSettled(s, c, outcome) ==
  LET s1 == IF ~outcome.ok THEN addLog(s, "error", "error")
            ELSE IF HasDetections(outcome.result)
              THEN addLog([s EXCEPT !.pollutionData =
                                      Merge(@, NewData(outcome.result)),
                                    !.mergeOrder = Append(@, c)],
                          "detected", "success")
            ELSE addLog(s, "none", "info")
  IN  [s1 EXCEPT !.appState = FinallyState(s1),
                 !.isAnalyzingRef = FALSE,
                 !.pending = @ \ {c}]

----------------------------------------------------------------------------
(* Scheduler: operations *)

Commit(s, op) ==
  /\ appState' = s.appState
  /\ satellitePosition' = s.satellitePosition
  /\ pollutionData' = s.pollutionData
  /\ logs' = s.logs
  /\ simulationIntervalRef' = s.simulationIntervalRef
  /\ scanCounterRef' = s.scanCounterRef
  /\ isAnalyzingRef' = s.isAnalyzingRef
  /\ patrolDirectionRef' = s.patrolDirectionRef
  /\ intervals' = s.intervals
  /\ pending' = s.pending
  /\ callsStarted' = s.callsStarted
  /\ mergeOrder' = s.mergeOrder
  /\ currentSatelliteImage' = s.currentSatelliteImage
  /\ lastOp' = op
  /\ UNCHANGED <<filters, adapterVars, variantVars>>

\* the part of the behaviours the model explores
WithinBounds(s) == s.scanCounterRef <= MaxScan /\ s.callsStarted <= MaxCalls

ResetCounterKept(counter) == counter

\* scanCounterRef.current = 0 of startSimulation
ResetCounter(counter) == 0

\* the START button is enabled only while stopped (SatelliteStatusPanel.tsx:71)
startSimulation ==
  /\ appState = Stopped
  /\ LET s1 == addLog(Snapshot, "start", "success")
         s2 == [s1 EXCEPT !.scanCounterRef = ResetCounter(@),
                          !.patrolDirectionRef = "forward",
                          !.satellitePosition = PATROL_START_POINT,
                          !.appState = Idle]
         s3 == SimulationLoop(appState, s2)
     IN  WithinBounds(s3) /\ Commit(s3, "start")

\* the STOP button is enabled only while running (SatelliteStatusPanel.tsx:79)
stopSimulation ==
  /\ appState # Stopped
  /\ LET s1 == addLog(Snapshot, "stopped", "info")
         s2 == [s1 EXCEPT !.appState = Stopped, !.isAnalyzingRef = FALSE]
         s3 == SimulationLoop(appState, s2)
     IN  WithinBounds(s3) /\ Commit(s3, "stop")

\* an expiry of the interval armed by the effect
Tick ==
  /\ intervals > 0
  /\ LET s1 == runSimulationStep(Snapshot)
         s2 == SimulationLoop(appState, s1)
     IN  WithinBounds(s2) /\ Commit(s2, "tick")

\* a pending classification call settles
Settle ==
  \E c \in pending, outcome \in Outcomes :
    LET s1 == analyzePositionSettled(Snapshot, c, outcome)
        s2 == SimulationLoop(appState, s1)
    IN  WithinBounds(s2) /\ Commit(s2, IF outcome.ok THEN "resolve" ELSE "reject")

NoFilters == [type |-> <<>>, hazardLevel |-> <<>>, impactArea |-> <<>>,
              confidence |-> <<>>]

\* no analyzeImage call has been made
AdapterIdle ==
  /\ adapterPc = "idle"
  /\ attempt = 0
  /\ replies = <<>>
  /\ delays = <<>>
  /\ adapterOutcome = [kind |-> "none", detections |-> <<>>]

\* no async step of the legacy App is suspended
NoSteps == [capture |-> 0, analyze |-> 0]

\* the variables of the variants while the classification-service variant
\* is the one mounted
VariantIdle ==
  /\ now = 0
  /\ imageIndexRef = 0
  /\ analysisResult = <<>>
  /\ centres = <<>>
  /\ asyncSteps = NoSteps

Init ==
  /\ AdapterIdle
  /\ VariantIdle
  /\ appState = Stopped
  /\ satellitePosition = PATROL_START_POINT
  /\ pollutionData = <<>>
  /\ logs = <<>>
  /\ filters = NoFilters
  /\ simulationIntervalRef = FALSE
  /\ scanCounterRef = 0
  /\ isAnalyzingRef = FALSE
  /\ patrolDirectionRef = "forward"
  /\ intervals = 0
  /\ pending = {}
  /\ callsStarted = 0
  /\ mergeOrder = <<>>
  /\ currentSatelliteImage = INITIAL_IMAGE
  /\ lastOp = "init"

Next == startSimulation \/ stopSimulation \/ Tick \/ Settle

Spec == Init /\ [][Next]_vars

----------------------------------------------------------------------------
(* Claims about the scheduler, checked under Spec *)

\* C1: the number of classification calls started and not yet settled is
\* never greater than one, for every interleaving of start, stop, ticks and
\* completions.
C1_AtMostOneCallInFlight == Cardinality(pending) <= 1

\* C2: when a call that was outstanding at stop() settles (detections, empty
\* list or error), the store is what it was at the stop and ScanState is still
\* Stopped.
C2_LateResultDiscarded ==
  [][(appState = Stopped /\ lastOp' \in {"resolve", "reject"})
       => (pollutionData' = pollutionData /\ appState' = Stopped)]_vars

\* C3: after stop() and until the next start() no tick is executed: the scan
\* counter, the position and the direction do not change and no timer is
\* armed, also when a call started before the stop settles.
C3_NoTickAfterStop ==
  [][(appState = Stopped /\ lastOp' # "start")
       => /\ scanCounterRef' = scanCounterRef
          /\ satellitePosition' = satellitePosition
          /\ patrolDirectionRef' = patrolDirectionRef
          /\ intervals' = 0]_vars

C7_FatalErrorKeepsPatrol ==
  [][/\ (lastOp' = "reject" /\ appState # Stopped)
          => /\ \A c \in pending \ pending' :
                  LET s == analyzePositionSettled(
                             Snapshot, c, [ok |-> FALSE, result |-> <<>>])
                  IN  /\ Head(s.logs) = LogEntry("error", "error")
                      /\ s.pollutionData = pollutionData
                      /\ s.appState = Idle
                      /\ ~s.isAnalyzingRef
             /\ pollutionData' = pollutionData
             /\ intervals' = 1 /\ simulationIntervalRef'
             /\ \/ appState' = Idle /\ ~isAnalyzingRef'
                \/ callsStarted' = callsStarted + 1
     /\ (lastOp' = "tick" /\ ~isAnalyzingRef /\ (scanCounterRef + 1) % 90 = 0)
          => callsStarted' = callsStarted + 1]_vars

C7_Witness ==
  /\ lastOp = "reject" /\ appState = Idle /\ ~isAnalyzingRef
  /\ intervals = 1 /\ scanCounterRef > 90
  /\ \E i \in 1..Len(logs) : logs[i].type = "error"

\* C8: every tick moves stepIndex to stepIndex + 1 while that is below
\* totalSteps, otherwise to 0 with a flip of the direction; the direction
\* changes on no other tick; ticks of the forward leg emit heading 135 and,
\* after the first flip, ticks of the backward leg emit 315.
C8_StepIndexAndDirection ==
  [][lastOp' \in {"tick", "resolve", "reject"}
       => LET n == scanCounterRef' - scanCounterRef
              reached == satellitePosition.stepIndex + n
          IN  /\ lastOp' = "tick" => n >= 1
              /\ reached < MaxLegSteps
                   => /\ satellitePosition'.stepIndex = reached
                      /\ patrolDirectionRef' = patrolDirectionRef
              /\ reached >= MaxLegSteps
                   => /\ satellitePosition'.stepIndex = reached - MaxLegSteps
                      /\ patrolDirectionRef' # patrolDirectionRef
              /\ (n > 0 /\ satellitePosition'.stepIndex # 0)
                   => satellitePosition'.heading =
                        IF patrolDirectionRef' = "forward" THEN 135 ELSE 315
     ]_vars

C8_Witness ==
  /\ lastOp = "tick" /\ patrolDirectionRef = "backward"
  /\ satellitePosition.stepIndex = 1 /\ satellitePosition.heading = 315

----------------------------------------------------------------------------
(* The classification adapter: analyzeImage (geminiService.ts:26-143) *)

MAX_RETRIES == 3
BACKOFF_BASE_MS == 60000
JITTER_RANGE_MS == 5000

\* Math.random() * 5000 takes values of [0, 5000)
Jitters == {0, JITTER_RANGE_MS \div 2, JITTER_RANGE_MS - 1}

Pow2Flat(n) == 1

\* Math.pow(2, attempt)
RECURSIVE Pow2(_)
Pow2(n) == IF n = 0 THEN 1 ELSE 2 * Pow2(n - 1)

\* an error message is represented by the markers it contains
ErrorMessages == SUBSET {"429", "RESOURCE_EXHAUSTED"}

\* what one generateContent request leads to inside the try block: a JSON text
\* with a detections array, a JSON text without one, or an exception (thrown by
\* the request, or by JSON.parse on a text that is not JSON)
Replies ==
  [kind : {"json"}, hasList : {TRUE}, detections : ServiceResults,
   message : {{}}]
    \cup {[kind |-> "json", hasList |-> FALSE, detections |-> <<>>,
           message |-> {}]}
    \cup [kind : {"error"}, hasList : {FALSE}, detections : {<<>>},
          message : ErrorMessages]

IsRateLimitAlways(message) == TRUE

\* errorMessage.includes('429') || errorMessage.includes('RESOURCE_EXHAUSTED')
IsRateLimit(message) == "429" \in message \/ "RESOURCE_EXHAUSTED" \in message

LastAttemptLate(a) == a = MAX_RETRIES

\* attempt === MAX_RETRIES - 1
LastAttempt(a) == a = MAX_RETRIES - 1

\* Math.pow(2, attempt) * 60000 + Math.random() * 5000
BackoffDelay(a, jitter) == Pow2(a) * BACKOFF_BASE_MS + jitter

Returned(list) == [kind |-> "list", detections |-> list]
Thrown(kind) == [kind |-> kind, detections |-> <<>>]

\* a call of analyzeImage: the loop is entered with attempt = 0; getAi() either
\* yields the client and the first request is issued, or throws (no API key),
\* which the catch block turns into the fatal error
analyzeImageCall ==
  /\ adapterPc \in {"idle", "returned", "thrown"}
  /\ attempt' = 0
  /\ replies' = <<>>
  /\ delays' = <<>>
  /\ \E client \in BOOLEAN :
       IF client
         THEN adapterPc' = "request"
              /\ adapterOutcome' = [kind |-> "none", detections |-> <<>>]
         ELSE adapterPc' = "thrown" /\ adapterOutcome' = Thrown("fatal")
  /\ lastOp' = "call"
  /\ UNCHANGED <<schedulerVars, filters, variantVars>>

\* the awaited request settles: the rest of the try block, or the catch block
analyzeImageReply ==
  /\ adapterPc = "request"
  /\ \E r \in Replies :
       /\ replies' = Append(replies, r)
       /\ \/ /\ r.kind = "json"
             /\ adapterPc' = "returned"
             /\ adapterOutcome' =
                  Returned(IF r.hasList THEN r.detections ELSE <<>>)
             /\ UNCHANGED delays
          \/ /\ r.kind = "error" /\ IsRateLimit(r.message)
             /\ LastAttempt(attempt)
             /\ adapterPc' = "thrown"
             /\ adapterOutcome' = Thrown("rateLimit")
             /\ UNCHANGED delays
          \/ /\ r.kind = "error" /\ IsRateLimit(r.message)
             /\ ~LastAttempt(attempt)
             /\ \E jitter \in Jitters :
                  delays' = Append(delays, BackoffDelay(attempt, jitter))
             /\ adapterPc' = "sleep"
             /\ UNCHANGED adapterOutcome
          \/ /\ r.kind = "error" /\ ~IsRateLimit(r.message)
             /\ adapterPc' = "thrown"
             /\ adapterOutcome' = Thrown("fatal")
             /\ UNCHANGED delays
  /\ lastOp' = "reply"
  /\ UNCHANGED <<attempt, schedulerVars, filters, variantVars>>

\* the backoff timer fires: attempt++, the loop test, and the next request or
\* the fallback error after the loop
analyzeImageWake ==
  /\ adapterPc = "sleep"
  /\ attempt' = attempt + 1
  /\ IF attempt + 1 < MAX_RETRIES
       THEN adapterPc' = "request" /\ UNCHANGED adapterOutcome
       ELSE adapterPc' = "thrown" /\ adapterOutcome' = Thrown("fallback")
  /\ lastOp' = "wake"
  /\ UNCHANGED <<replies, delays, schedulerVars, filters, variantVars>>

NextAdapter == analyzeImageCall \/ analyzeImageReply \/ analyzeImageWake

SpecAdapter == Init /\ [][NextAdapter]_vars

----------------------------------------------------------------------------
(* Claims about the adapter, checked under SpecAdapter *)

\* the requests the current call has issued
Requests == Len(replies) + (IF adapterPc = "request" THEN 1 ELSE 0)

RateLimitReply(r) ==
  r.kind = "error" /\ ("429" \in r.message \/ "RESOURCE_EXHAUSTED" \in r.message)

AllRateLimited ==
  Len(replies) > 0 /\ \A i \in 1..Len(replies) : RateLimitReply(replies[i])

\* C5: when every request fails with a rate-limit error, analyzeImage issues
\* exactly 3 requests and then raises the rate-limit error; it never issues a
\* fourth request and never returns a list.
C5_RetryBound ==
  /\ Requests <= 3
  /\ AllRateLimited
       => /\ adapterPc # "returned"
          /\ adapterPc = "thrown"
               => Len(replies) = 3 /\ adapterOutcome = Thrown("rateLimit")
          /\ Len(replies) = 3 => adapterPc = "thrown"

C5_Witness ==
  /\ AllRateLimited /\ Len(replies) = 3 /\ Len(delays) = 2
  /\ adapterPc = "thrown" /\ adapterOutcome = Thrown("rateLimit")

\* C6: a request that fails with an error that is not a rate limit, on any
\* attempt, makes analyzeImage raise the fatal error at once: it is the last
\* request of the call and no backoff delay follows it.
C6_NoRetryOnOtherError ==
  \A i \in 1..Len(replies) :
    (replies[i].kind = "error" /\ ~RateLimitReply(replies[i]))
      => /\ i = Len(replies)
         /\ Requests = i
         /\ adapterPc = "thrown" /\ adapterOutcome = Thrown("fatal")
         /\ Len(delays) = i - 1

C6_Witness ==
  /\ Len(replies) = 2 /\ adapterPc = "thrown"
  /\ replies[2].kind = "error" /\ replies[2].message = {}
  /\ Len(delays) = 1

----------------------------------------------------------------------------
(* Detection filter (MonitorPage.tsx:274-314) *)

\* bound on the detections stored when the filter is explored
MaxStore == 2
\* bound on the number of check boxes ticked at the same time
MaxActiveFilters == 3

\* the check boxes of the filter panel
FilterOptions ==
  [type |-> {"Chemical", "Oil", "Physical"},
   hazardLevel |-> {"Low", "Medium", "High"},
   impactArea |-> {"Water", "Soil"},
   confidence |-> {"LowConfidence", "MediumConfidence", "HighConfidence"}]

rPhysical == [type |-> "Physical", confidence |-> 749,
              geometry |-> Polygon(<<4>>),
              impactArea |-> "Water", hazardLevel |-> "Medium"]
rOilLow == [type |-> "Oil", confidence |-> 900, geometry |-> Polygon(<<4>>),
            impactArea |-> "Soil", hazardLevel |-> "Low"]

\* entries the service may return, for the stores the filter is explored on
FilterEntries == {rOil, rChemical, rPhysical, rOilLow}

SeqsUpTo(S, n) == UNION {[1..k -> S] : k \in 0..n}

\* arr.includes(val)
Includes(arr, val) == \E i \in 1..Len(arr) : arr[i] = val

toggleAddOnly(arr, val) == Append(arr, val)
toggleKeeps(arr, val) == arr

\* arr.includes(val) ? arr.filter(v => v !== val) : [...arr, val]
toggle(arr, val) ==
  LET Other(v) == v # val
  IN  IF Includes(arr, val) THEN SelectSeq(arr, Other) ELSE Append(arr, val)

MediumUpToExclusive(value) == value < 900

\* the upper limit of the middle confidence level: value <= 0.9
MediumUpTo(value) == value <= 900

getConfidenceLevel(value) ==
  IF value < 750 THEN "LowConfidence"
  ELSE IF MediumUpTo(value) THEN "MediumConfidence"
  ELSE "HighConfidence"

AnyFacetMatches(type, hazard, area, conf) == type \/ hazard \/ area \/ conf

\* return type && hazard && area && conf
AllFacetsMatch(type, hazard, area, conf) == type /\ hazard /\ area /\ conf

RECURSIVE Reverse(_)
Reverse(seq) ==
  IF seq = <<>> THEN <<>> ELSE Append(Reverse(Tail(seq)), Head(seq))

\* the entries of the store the filters f show
Shown(p, f) ==
  AllFacetsMatch(
    Len(f.type) = 0 \/ Includes(f.type, p.type),
    Len(f.hazardLevel) = 0 \/ Includes(f.hazardLevel, p.hazardLevel),
    Len(f.impactArea) = 0 \/ Includes(f.impactArea, p.impactArea),
    Len(f.confidence) = 0
      \/ Includes(f.confidence, getConfidenceLevel(p.confidence)))

FilterViewNewestFirst(store, f) ==
  LET Keep(p) == Shown(p, f)
  IN  Reverse(SelectSeq(store, Keep))

\* pollutionData.filter(p => ...) unless no facet is active
FilterView(store, f) ==
  LET active == \E c \in DOMAIN f : Len(f[c]) > 0
      Keep(p) == Shown(p, f)
  IN  IF ~active THEN store ELSE SelectSeq(store, Keep)

\* the useMemo value shown on the map
filteredPollutionData == FilterView(pollutionData, filters)

\* Object.values(updated).flat().length
ActiveFilters(f) ==
  Len(f.type) + Len(f.hazardLevel) + Len(f.impactArea) + Len(f.confidence)

\* a click on a check box of the panel
handleFilterChange ==
  \E category \in DOMAIN FilterOptions :
    \E value \in FilterOptions[category] :
      /\ filters' = [filters EXCEPT ![category] = toggle(@, value)]
      /\ ActiveFilters(filters') <= MaxActiveFilters
      /\ logs' = addLog([logs |-> logs], "filter", "info").logs
      /\ lastOp' = "toggle"
      /\ UNCHANGED <<appState, satellitePosition, pollutionData,
                     simulationIntervalRef, scanCounterRef, isAnalyzingRef,
                     patrolDirectionRef, intervals, pending, callsStarted,
                     mergeOrder, currentSatelliteImage, adapterVars,
                 variantVars>>

\* the reset button, enabled while some facet is not empty (part_000:316)
resetFilters ==
  /\ \E c \in DOMAIN filters : Len(filters[c]) > 0
  /\ filters' = NoFilters
  /\ logs' = addLog([logs |-> logs], "reset", "info").logs
  /\ lastOp' = "reset"
  /\ UNCHANGED <<appState, satellitePosition, pollutionData,
                 simulationIntervalRef, scanCounterRef, isAnalyzingRef,
                 patrolDirectionRef, intervals, pending, callsStarted,
                 mergeOrder, currentSatelliteImage, adapterVars,
                 variantVars>>

\* the filter explored over the stores that scans can have left
InitFilter ==
  /\ AdapterIdle
  /\ VariantIdle
  /\ appState = Stopped
  /\ satellitePosition = PATROL_START_POINT
  /\ \E result \in SeqsUpTo(FilterEntries, MaxStore) :
       pollutionData = NewData(result)
  /\ logs = <<>>
  /\ filters = NoFilters
  /\ simulationIntervalRef = FALSE
  /\ scanCounterRef = 0
  /\ isAnalyzingRef = FALSE
  /\ patrolDirectionRef = "forward"
  /\ intervals = 0
  /\ pending = {}
  /\ callsStarted = 0
  /\ mergeOrder = <<>>
  /\ currentSatelliteImage = INITIAL_IMAGE
  /\ lastOp = "init"

NextFilter == handleFilterChange \/ resetFilters

SpecFilter == InitFilter /\ [][NextFilter]_vars

----------------------------------------------------------------------------
(* Claims about the filter, checked under SpecFilter *)

\* the values of an array
Values(arr) == {arr[i] : i \in 1..Len(arr)}

\* the detections shown when only the confidence facet is set
ShownConfidences == {filteredPollutionData[i].confidence :
                       i \in 1..Len(filteredPollutionData)}

\* C9: getConfidenceLevel maps a confidence below 0.75 to Low, one of
\* [0.75, 0.90] to Medium (both ends included) and one above 0.90 to High, so
\* 0.749 is Low, 0.75 and 0.90 are Medium and 0.901 is High; the confidence
\* facet selects the stored detections accordingly.
C9_ConfidenceBuckets ==
  /\ \A i \in 1..Len(pollutionData) :
       LET c == pollutionData[i].confidence
           level == getConfidenceLevel(c)
       IN  /\ c < 750 => level = "LowConfidence"
           /\ (750 <= c /\ c <= 900) => level = "MediumConfidence"
           /\ c > 900 => level = "HighConfidence"
           /\ c = 749 => level = "LowConfidence"
           /\ c \in {750, 900} => level = "MediumConfidence"
           /\ c = 901 => level = "HighConfidence"
  /\ (/\ filters.confidence = <<"MediumConfidence">>
      /\ ActiveFilters(filters) = 1)
       => ShownConfidences =
            {pollutionData[i].confidence : i \in 1..Len(pollutionData)}
              \cap 750..900

C9_Witness ==
  /\ filters.confidence = <<"MediumConfidence">> /\ ActiveFilters(filters) = 1
  /\ Len(pollutionData) = 2
  /\ pollutionData[1].confidence = 900 /\ pollutionData[2].confidence = 901
  /\ ShownConfidences = {900}

\* C10: a stored detection is in the filtered view exactly when each of the
\* four facets (kind, hazard level, impact area, confidence level) is empty
\* or contains the detection's value: AND across facets, OR within a facet.
\* With {Oil, High} and {Chemical, Low} stored, kind = {Oil} shows the first,
\* hazard = {Low} the second, kind = {Oil} with hazard = {Low} neither.
C10_FilterConjunction ==
  LET InFacet(facet, v) == Values(facet) = {} \/ v \in Values(facet)
      Passes(p) == /\ InFacet(filters.type, p.type)
                   /\ InFacet(filters.hazardLevel, p.hazardLevel)
                   /\ InFacet(filters.impactArea, p.impactArea)
                   /\ InFacet(filters.confidence,
                              getConfidenceLevel(p.confidence))
      example == pollutionData = NewData(<<rOil, rChemical>>)
      only(t, h) == /\ Values(filters.type) = t
                    /\ Values(filters.hazardLevel) = h
                    /\ filters.impactArea = <<>> /\ filters.confidence = <<>>
  IN  /\ filteredPollutionData = SelectSeq(pollutionData, Passes)
      /\ (example /\ only({"Oil"}, {}))
           => filteredPollutionData = NewData(<<rOil>>)
      /\ (example /\ only({}, {"Low"}))
           => filteredPollutionData = NewData(<<rChemical>>)
      /\ (example /\ only({"Oil"}, {"Low"})) => filteredPollutionData = <<>>

C10_Witness ==
  /\ pollutionData = NewData(<<rOil, rChemical>>)
  /\ filters.type = <<"Oil">> /\ filters.hazardLevel = <<"Low">>
  /\ filters.impactArea = <<>> /\ filters.confidence = <<>>
  /\ filteredPollutionData = <<>>

----------------------------------------------------------------------------
(* Detection pipeline and patrol geometry: properties of Spec *)

\* C11: an entry of the response whose boundary is missing or whose ring has
\* no points never reaches the store: every stored detection has a boundary
\* with a ring of at least one point
C11_StoredBoundaryHasRing ==
  \A i \in DOMAIN pollutionData :
    /\ Len(pollutionData[i].geometry.coordinates) > 0
    /\ pollutionData[i].geometry.coordinates[1] > 0

\* C15: every stored detection has a confidence within [0, 1], whatever the
\* service returned
C15_StoredConfidenceInRange ==
  \A i \in DOMAIN pollutionData :
    /\ pollutionData[i].confidence >= 0
    /\ pollutionData[i].confidence <= 1000

\* C16: the emitted position has lat in [-90, 90], lng in (-180, 180],
\* heading in [0, 360) and 0 <= stepIndex < totalSteps
C16_PositionInRange ==
  /\ satellitePosition.lat >= -90000 /\ satellitePosition.lat <= 90000
  /\ satellitePosition.lng > -180000 /\ satellitePosition.lng <= 180000
  /\ satellitePosition.heading >= 0 /\ satellitePosition.heading < 360
  /\ satellitePosition.stepIndex >= 0
  /\ satellitePosition.stepIndex
       < totalSteps(patrolDirectionRef = "forward")

\* a tick on the way back has emitted the last position before the turn
C16_Witness ==
  /\ lastOp = "tick"
  /\ patrolDirectionRef = "backward"
  /\ satellitePosition.stepIndex = totalSteps(FALSE) - 1
  /\ satellitePosition.lat > PATROL_END_POINT.lat
  /\ satellitePosition.lat < PATROL_START_POINT.lat

\* C17: detections are merged in the order their calls were started: a call
\* started earlier never merges after a call started later
C17_MergedInStartOrder ==
  \A i, j \in DOMAIN mergeOrder :
    i < j => mergeOrder[i] < mergeOrder[j]

\* C14 as stated: when start() has taken effect the scan counter is 0, the
\* direction forward, the position the route start with stepIndex 0, the
\* state Idle and one timer is armed
C14_StartLeavesRouteStart ==
  lastOp = "start"
    => /\ scanCounterRef = 0
       /\ patrolDirectionRef = "forward"
       /\ satellitePosition = PATROL_START_POINT
       /\ appState = Idle
       /\ intervals = 1

\* C14, amended: start() resets counter, direction and position, and the
\* simulation loop then makes the first patrol step before it arms the timer:
\* when start() has taken effect the scan counter is 1, the direction forward,
\* the position one step from the route start with stepIndex 1, the state
\* Idle, and exactly one timer is armed
C14_StartMakesFirstStep ==
  lastOp = "start"
    => /\ scanCounterRef = 1
       /\ patrolDirectionRef = "forward"
       /\ satellitePosition =
            [lat |-> PATROL_START_POINT.lat
                       + (PATROL_END_POINT.lat - PATROL_START_POINT.lat)
                           \div totalSteps(TRUE),
             lng |-> PATROL_START_POINT.lng
                       + NormalizeLng(PATROL_END_POINT.lng
                                        - PATROL_START_POINT.lng)
                           \div totalSteps(TRUE),
             heading |-> PATROL_HEADING,
             stepIndex |-> 1]
       /\ appState = Idle
       /\ intervals = 1
       /\ simulationIntervalRef

\* start() after an earlier run that merged detections and was stopped with
\* a call outstanding
C14_Witness ==
  /\ lastOp = "start"
  /\ pending # {}
  /\ mergeOrder # <<>>

\* the start point of the leg flown in the given direction
LegStart(direction) ==
  IF direction = "forward" THEN PATROL_START_POINT ELSE PATROL_END_POINT

\* C18: the position emitted with stepIndex 0 by the step that turns is the
\* start of the new leg, which is the end of the leg just completed
C18_TurnEmitsNewLegStart ==
  (scanCounterRef > 0 /\ satellitePosition.stepIndex = 0)
    => /\ satellitePosition.lat = LegStart(patrolDirectionRef).lat
       /\ satellitePosition.lng = LegStart(patrolDirectionRef).lng

\* C19: the emitted heading is the heading of the direction held after the
\* step, also on the step that turns
C19_HeadingMatchesDirection ==
  satellitePosition.heading =
    IF patrolDirectionRef = "forward" THEN PATROL_HEADING
    ELSE (PATROL_HEADING + 180) % 360

----------------------------------------------------------------------------
(* The log with the size of the source. Every handler writes the log through
   addLog only, so SpecLog explores a sequence of addLog calls; an entry
   carries the serial number of its call in the timestamp field, which tells
   the entries apart. *)

\* new Date(): the serial number of the call
Stamp(prev) == IF prev = <<>> THEN 1 ELSE Head(prev).timestamp + 1

addLogCall ==
  /\ Stamp(logs) <= MaxLogCalls
  /\ logs' = PushLog([timestamp |-> Stamp(logs), message |-> "event",
                      type |-> "info"],
                     logs, LOG_KEPT)
  /\ lastOp' = "log"
  /\ UNCHANGED <<appState, satellitePosition, pollutionData,
                 simulationIntervalRef, scanCounterRef, isAnalyzingRef,
                 patrolDirectionRef, intervals, pending, callsStarted,
                 mergeOrder, currentSatelliteImage, filters, adapterVars,
                 variantVars>>

NextLog == addLogCall

SpecLog == Init /\ [][NextLog]_vars

\* C13: the log never holds more than 100 entries; every addLog call puts
\* its entry in the log; the older entries keep their order, and of a log
\* that already holds 100 entries exactly the oldest is dropped
C13_LogKeepsNewest100 ==
  [][/\ Len(logs') <= LOG_KEPT + 1
     /\ Head(logs').timestamp = Stamp(logs)
     /\ Tail(logs') = IF Len(logs) = LOG_KEPT + 1
                        THEN SubSeq(logs, 1, Len(logs) - 1)
                        ELSE logs]_vars

\* the log is full and entries have been dropped
C13_Witness ==
  /\ Len(logs) = LOG_KEPT + 1
  /\ Head(logs).timestamp = LOG_KEPT + 4
  /\ logs[Len(logs)].timestamp = 4

----------------------------------------------------------------------------
(* A session: the scheduler with the filter panel in use. The session is
   explored over runs of up to one analysis period each, two classification
   calls, and with the filter panel restricted to two check boxes. *)

SessionFilters ==
  {[NoFilters EXCEPT !.type = t, !.hazardLevel = h] :
     t \in {<<>>, <<"Oil">>}, h \in {<<>>, <<"High">>}}

InSession ==
  /\ scanCounterRef <= ANALYSIS_PERIOD + 1
  /\ callsStarted <= 2
  /\ filters \in SessionFilters

NextSession ==
  \/ startSimulation /\ InSession'
  \/ stopSimulation /\ InSession'
  \/ Tick /\ InSession'
  \/ Settle /\ InSession'
  \/ handleFilterChange /\ InSession'
  \/ resetFilters /\ InSession'

SpecSession == Init /\ [][NextSession]_vars

IsPrefix(s, t) == Len(s) <= Len(t) /\ SubSeq(t, 1, Len(s)) = s

\* C12: whatever the operation (start, stop, tick, completion of a call,
\* filter toggle, filter reset), the store before it is a prefix of the store
\* after it
C12_StoreAppendOnly == [][IsPrefix(pollutionData, pollutionData')]_vars

\* detections of a second call were appended to those of a first one, and the
\* filter panel was used afterwards
C12_Witness ==
  /\ Len(mergeOrder) = 2
  /\ Len(pollutionData) > Len(NewData(<<rOil>>))
  /\ lastOp = "toggle"

----------------------------------------------------------------------------
(* The patrol without end: the scheduler is started and never stopped, and
   the interval keeps expiring. The scan counter grows for ever and is read
   only through counter % 90, so SpecPatrol keeps it modulo PatrolCycle, one
   period of the pair (analysis, route); the pending calls are renumbered
   from 1. The service returns detections to the first
   successful call only, which keeps the store finite. *)

\* steps after which the analysis schedule and the route are both back where
\* they were
PatrolCycle == 2 * MaxLegSteps * ANALYSIS_PERIOD

PatrolView(s) ==
  [s EXCEPT !.scanCounterRef = @ % PatrolCycle,
            !.callsStarted = Cardinality(s.pending),
            !.pending = 1..Cardinality(s.pending)]

TickPatrol ==
  /\ intervals > 0
  /\ \E s1 \in {runSimulationStep(Snapshot)} :
       \E s2 \in {SimulationLoop(appState, s1)} :
         \E s3 \in {PatrolView(s2)} : Commit(s3, "tick")

SettlePatrol ==
  \E c \in pending, outcome \in Outcomes :
    /\ pollutionData = <<>> \/ outcome.result = <<>>
    /\ \E s1 \in {analyzePositionSettled(Snapshot, c, outcome)} :
         \E s2 \in {SimulationLoop(appState, s1)} :
           \E s3 \in {PatrolView(s2)} :
             Commit(s3, IF outcome.ok THEN "resolve" ELSE "reject")

NextPatrol == startSimulation \/ TickPatrol \/ SettlePatrol

\* window.setInterval fires again and again while the interval is armed
SpecPatrol == Init /\ [][NextPatrol]_vars /\ WF_vars(TickPatrol)

----------------------------------------------------------------------------
(* The scheduler while a call is outstanding: properties of Spec *)

C22_BusyOnlyWhileCallOutstanding ==
  /\ [](appState \in {Scanning, Analyzing} => pending # {})
  /\ [][(/\ lastOp' = "tick"
         /\ appState # Stopped
         /\ pending = {}
         /\ (scanCounterRef + 1) % ANALYSIS_PERIOD # 0)
          => appState' = Idle]_vars

\* a tick with nothing due, after a call was made and has settled
C22_Witness ==
  /\ lastOp = "tick"
  /\ appState = Idle
  /\ pending = {}
  /\ callsStarted > 0
  /\ scanCounterRef % ANALYSIS_PERIOD # 0

\* C23: while the scheduler runs, an expiry of the timer executes exactly one
\* patrol step, and the start or the completion of a call (a change of
\* ScanState between states other than Stopped) executes no step and leaves
\* the armed timer as it is
C23_OneStepPerExpiry ==
  [][appState # Stopped
       => /\ lastOp' = "tick" => scanCounterRef' = scanCounterRef + 1
          /\ lastOp' \in {"resolve", "reject"}
               => /\ scanCounterRef' = scanCounterRef
                  /\ satellitePosition' = satellitePosition]_vars

----------------------------------------------------------------------------
(* Backoff and termination of analyzeImage: properties of SpecAdapter and
   SpecAdapterFair *)

SpecAdapterFair ==
  /\ Init
  /\ [][NextAdapter]_vars
  /\ WF_vars(analyzeImageReply)
  /\ WF_vars(analyzeImageWake)

----------------------------------------------------------------------------
(* Completion without detections: property of Spec *)

\* C26: when a call returns an empty list, the completion handler leaves the
\* store as it is, logs exactly one entry, informational and reporting no
\* detections, and sets ScanState to Idle; after the simulation loop has
\* reacted, the store is still unchanged and ScanState is Idle unless the loop
\* started the next call
C26_EmptyResultOnlyLogs ==
  [][(lastOp' = "resolve" /\ pollutionData' = pollutionData)
       => \A c \in pending \ pending' :
            LET s == analyzePositionSettled(
                       Snapshot, c, [ok |-> TRUE, result |-> <<>>])
            IN  /\ s.pollutionData = pollutionData
                /\ Head(s.logs) = LogEntry("none", "info")
                /\ Tail(s.logs) = SubSeq(logs, 1, Min(Len(logs), MaxLog - 1))
                /\ s.appState = Idle
                /\ Snapshot' = SimulationLoop(appState, s)
                /\ \/ appState' = Idle
                   \/ callsStarted' = callsStarted + 1]_vars

\* a call has returned an empty list to the running scheduler
C26_Witness ==
  /\ lastOp = "resolve"
  /\ pollutionData = <<>>
  /\ appState = Idle
  /\ pending = {}
  /\ \E i \in DOMAIN logs : logs[i] = LogEntry("none", "info")

----------------------------------------------------------------------------
(* The filter handlers: properties of SpecFilter *)

\* C27: a toggle adds the value to its facet when absent and removes it when
\* present, so toggling a value twice gives back the facet's set of values;
\* a reset leaves the four facets empty
C27_ToggleTwiceRestores ==
  /\ [](\A c \in DOMAIN FilterOptions : \A v \in FilterOptions[c] :
          /\ Values(toggle(filters[c], v)) =
               IF v \in Values(filters[c])
                 THEN Values(filters[c]) \ {v}
                 ELSE Values(filters[c]) \cup {v}
          /\ Values(toggle(toggle(filters[c], v), v)) = Values(filters[c]))
  /\ [][lastOp' = "toggle"
          => \E c \in DOMAIN FilterOptions : \E v \in FilterOptions[c] :
               Values(filters'[c]) =
                 IF v \in Values(filters[c])
                   THEN Values(filters[c]) \ {v}
                   ELSE Values(filters[c]) \cup {v}]_vars
  /\ [][lastOp' = "reset"
          => \A c \in DOMAIN filters' : filters'[c] = <<>>]_vars

\* a value was ticked and unticked: the panel is empty again without a reset
C27_Witness ==
  /\ lastOp = "toggle"
  /\ filters = NoFilters
  /\ Len(logs) = 2

----------------------------------------------------------------------------
(* The filter handlers beside the running scheduler: property of
   SpecSession *)

\* C28: a toggle changes one facet and leaves the other three as they were;
\* toggle and reset leave the store, the position, the scan counter, ScanState
\* and the in-flight guard as they were
C28_FilterOpsTouchOnlyFilters ==
  [][/\ lastOp' = "toggle"
          => Cardinality({c \in DOMAIN filters : filters'[c] # filters[c]}) = 1
     /\ lastOp' \in {"toggle", "reset"}
          => /\ pollutionData' = pollutionData
             /\ satellitePosition' = satellitePosition
             /\ scanCounterRef' = scanCounterRef
             /\ appState' = appState
             /\ isAnalyzingRef' = isAnalyzingRef]_vars

\* a check box was ticked beside another one while a call was in flight
C28_Witness ==
  /\ lastOp = "toggle"
  /\ filters.type # <<>> /\ filters.hazardLevel # <<>>
  /\ appState = Analyzing
  /\ isAnalyzingRef
  /\ pollutionData # <<>>


----------------------------------------------------------------------------
(* The footprint of the emitted position: properties of Spec *)

\* the corridor at every whole degree of latitude between its two ends
CorridorPoints ==
  LET n == (PATROL_START_POINT.lat - PATROL_END_POINT.lat) \div 1000
      dLng == NormalizeLng(PATROL_END_POINT.lng - PATROL_START_POINT.lng)
  IN  {[lat |-> PATROL_START_POINT.lat - 1000 * k,
        lng |-> NormalizeLng(PATROL_START_POINT.lng + (dLng * k) \div n)] :
         k \in 0..n}

InsideRegion(b) ==
  /\ ARCTIC_WEST <= b.minLng /\ b.maxLng <= ARCTIC_EAST
  /\ ARCTIC_SOUTH <= b.minLat /\ b.maxLat <= ARCTIC_NORTH

WellFormed(b) == b.minLng <= b.maxLng /\ b.minLat <= b.maxLat

Contains(b, p) ==
  /\ b.minLng <= p.lng /\ p.lng <= b.maxLng
  /\ b.minLat <= p.lat /\ p.lat <= b.maxLat

\* the footprints of the points of the corridor are inside the region, well
\* formed and around their point
CorridorFootprints ==
  \A p \in CorridorPoints :
    /\ InsideRegion(BBox(p.lat, p.lng))
    /\ WellFormed(BBox(p.lat, p.lng))
    /\ Contains(BBox(p.lat, p.lng), p)

\* C29: the footprint of every emitted position, and of every point of the
\* corridor at a whole degree of latitude, lies inside the monitored region,
\* has minLng <= maxLng and minLat <= maxLat, and contains the position
C29_FootprintInsideRegion ==
  /\ scanCounterRef > 0
       => /\ currentSatelliteImage
               = BBox(satellitePosition.lat, satellitePosition.lng)
          /\ InsideRegion(currentSatelliteImage)
          /\ WellFormed(currentSatelliteImage)
          /\ Contains(currentSatelliteImage, satellitePosition)
  /\ CorridorFootprints

\* a tick has emitted a position off the start of the route, and its footprint
\* is wider in longitude than in latitude
C29_Witness ==
  /\ lastOp = "tick"
  /\ satellitePosition.stepIndex > 0
  /\ currentSatelliteImage # INITIAL_IMAGE
  /\ currentSatelliteImage.maxLng - currentSatelliteImage.minLng
       > currentSatelliteImage.maxLat - currentSatelliteImage.minLat

\* C30: whatever the refresh period is, from two ticks up to the analysis
\* period, a tick that makes the scan counter a multiple of none of these
\* periods leaves the image reference as it was
C30_ImageOnlyOnRefreshTicks ==
  [][(/\ scanCounterRef' # scanCounterRef
      /\ \A imageRefreshPeriod \in 2..ANALYSIS_PERIOD :
            scanCounterRef' % imageRefreshPeriod # 0)
       => currentSatelliteImage' = currentSatelliteImage]_vars

----------------------------------------------------------------------------
(* IEEE 754 double arithmetic, for the confidence of the synthetic adapter
   (0.75 + Math.random() * 0.24). A natural number is the sequence of its
   bits, the least significant first; a positive double is a significand m
   of 53 bits, the last of them 1, with the exponent e of its least
   significant bit: the number m * 2^e. Zero has no bits. Only numbers far
   from the subnormal and the infinite ones occur. *)

DOUBLE_BITS == 53

\* the number of bits of a up to its most significant 1
BitLen(a) ==
  IF \A i \in 1..Len(a) : a[i] = 0 THEN 0
  ELSE CHOOSE i \in 1..Len(a) :
         a[i] = 1 /\ \A j \in (i + 1)..Len(a) : a[j] = 0

Trim(a) == SubSeq(a, 1, BitLen(a))

Zeros(n) == [i \in 1..n |-> 0]

\* the eight columns of the c-th byte as one number; column k of cols counts
\* the units of weight 2^(k-1)
ByteOf(cols, c) ==
  LET C(t) == IF 8 * c + t <= Len(cols) THEN cols[8 * c + t] ELSE 0
  IN  C(1) + 2 * C(2) + 4 * C(3) + 8 * C(4) + 16 * C(5) + 32 * C(6)
        + 64 * C(7) + 128 * C(8)

RECURSIVE Carries(_, _, _)
\* the bytes of the number given by its columns, from the c-th on, the least
\* significant first
Carries(cols, c, carry) ==
  IF 8 * c >= Len(cols) /\ carry = 0 THEN <<>>
  ELSE <<(ByteOf(cols, c) + carry) % 256>>
         \o Carries(cols, c + 1, (ByteOf(cols, c) + carry) \div 256)

\* the bits of the number given by its columns
BitsOf(cols) ==
  LET bytes == Carries(cols, 0, 0)
  IN  Trim([i \in 1..(8 * Len(bytes)) |->
              (bytes[(i - 1) \div 8 + 1] \div 2 ^ ((i - 1) % 8)) % 2])

\* a + b
AddBits(a, b) ==
  BitsOf([k \in 1..Max(Len(a), Len(b)) |->
            (IF k <= Len(a) THEN a[k] ELSE 0)
              + (IF k <= Len(b) THEN b[k] ELSE 0)])

\* a * b, by long multiplication: column k holds the pairs of 1 bits whose
\* weights multiply to 2^(k-1)
MulBits(a, b) ==
  BitsOf([k \in 1..(Len(a) + Len(b)) |->
            Cardinality({i \in 1..Len(a) :
                           /\ k + 1 - i \in 1..Len(b)
                           /\ a[i] = 1 /\ b[k + 1 - i] = 1})])

DoubleZero == [m |-> <<>>, e |-> 0]

\* the double nearest to n * 2^e, ties to the even significand
RoundToDouble(n, e) ==
  LET t == Trim(n)
      len == Len(t)
      k == len - DOUBLE_BITS
  IN  IF len = 0 THEN DoubleZero
      ELSE IF k <= 0 THEN [m |-> Zeros(-k) \o t, e |-> e + k]
      ELSE LET high == SubSeq(t, k + 1, len)
               sticky == \E i \in 1..(k - 1) : t[i] = 1
               up == t[k] = 1 /\ (sticky \/ high[1] = 1)
               r == IF up THEN AddBits(high, <<1>>) ELSE high
           IN  IF Len(r) > DOUBLE_BITS
                 THEN [m |-> Tail(r), e |-> e + k + 1]
                 ELSE [m |-> r, e |-> e + k]

\* x * y
FMul(x, y) ==
  IF x.m = <<>> \/ y.m = <<>> THEN DoubleZero
  ELSE RoundToDouble(MulBits(x.m, y.m), x.e + y.e)

\* x + y
FAdd(x, y) ==
  IF x.m = <<>> THEN y
  ELSE IF y.m = <<>> THEN x
  ELSE LET e == IF x.e < y.e THEN x.e ELSE y.e
       IN  RoundToDouble(AddBits(Zeros(x.e - e) \o x.m,
                                 Zeros(y.e - e) \o y.m), e)

\* x < y
FLess(x, y) ==
  IF y.m = <<>> THEN FALSE
  ELSE IF x.m = <<>> THEN TRUE
  ELSE IF x.e # y.e THEN x.e < y.e
  ELSE \E i \in 1..DOUBLE_BITS :
         /\ x.m[i] < y.m[i]
         /\ \A j \in (i + 1)..DOUBLE_BITS : x.m[j] = y.m[j]

RECURSIVE TwoToThe(_, _)
\* 2^k modulo den
TwoToThe(k, den) ==
  IF k = 0 THEN 1 % den
  ELSE (TwoToThe(k \div 2, den) * TwoToThe(k \div 2, den)
          * (IF k % 2 = 1 THEN 2 ELSE 1)) % den

\* the k-th bit after the binary point of num / den, for num < den <= 1000
FractionBit(num, den, k) ==
  (2 * ((num * TwoToThe(k - 1, den)) % den)) \div den

\* the double of the decimal literal num / den, for 0 < num < den <= 1000
DoubleOf(num, den) ==
  LET first == CHOOSE k \in 1..DOUBLE_BITS :
                 /\ FractionBit(num, den, k) = 1
                 /\ \A j \in 1..(k - 1) : FractionBit(num, den, j) = 0
      last == first + DOUBLE_BITS - 1
      m == [i \in 1..DOUBLE_BITS |-> FractionBit(num, den, last + 1 - i)]
      rest == (num * TwoToThe(last, den)) % den
      up == 2 * rest > den \/ (2 * rest = den /\ m[1] = 1)
      r == IF up THEN AddBits(m, <<1>>) ELSE m
  IN  IF Len(r) > DOUBLE_BITS
        THEN [m |-> Tail(r), e |-> 1 - last]
        ELSE [m |-> r, e |-> -last]

\* the double 1 - 2^-n, for 1 <= n <= 53
OneMinusTwoTo(n) == RoundToDouble([i \in 1..n |-> 1], -n)

----------------------------------------------------------------------------
(* The synthetic adapter: src/services/mockPollutionService.ts. A value of
   Math.random() is an integer r in 0..999 that stands for r / 1000; the
   value drawn for a confidence is a double. *)

POLLUTION_TYPES == <<"Chemical", "Oil", "Physical">>
HAZARD_LEVELS == <<"Low", "Medium", "High">>

\* Math.floor(Math.random() * n)
RandomIndex(r, n) == (r * n) \div 1000

\* arr[Math.floor(Math.random() * arr.length)]
getRandomElement(arr, r) == arr[RandomIndex(r, Len(arr)) + 1]

\* the land polygons, points <<lng, lat>> in thousandths of a degree
ARCTIC_LANDMASSES ==
  << \* Greenland
     << <<-55000, 83500>>, <<-20000, 83000>>, <<-15000, 81000>>,
        <<-25000, 75000>>, <<-35000, 68000>>, <<-50000, 60000>>,
        <<-60000, 65000>>, <<-70000, 70000>>, <<-60000, 78000>>,
        <<-55000, 83500>> >>,
     \* Svalbard
     << <<10000, 80800>>, <<30000, 80500>>, <<32000, 79000>>,
        <<25000, 77000>>, <<12000, 77500>>, <<10000, 80800>> >>,
     \* Canadian Arctic
     << <<-125000, 78000>>, <<-110000, 82000>>, <<-80000, 83000>>,
        <<-65000, 81000>>, <<-60000, 75000>>, <<-70000, 68000>>,
        <<-85000, 65000>>, <<-100000, 68000>>, <<-120000, 70000>>,
        <<-130000, 72000>>, <<-125000, 78000>> >>,
     \* Northern Siberia
     << <<60000, 73000>>, <<80000, 77000>>, <<100000, 79000>>,
        <<120000, 78000>>, <<140000, 76000>>, <<170000, 72000>>,
        <<180000, 70000>>, <<170000, 68000>>, <<140000, 70000>>,
        <<120000, 72000>>, <<100000, 73000>>, <<80000, 72000>>,
        <<60000, 73000>> >>,
     \* Alaska
     << <<-168000, 71500>>, <<-155000, 71000>>, <<-145000, 70000>>,
        <<-141000, 68000>>, <<-150000, 67000>>, <<-165000, 68000>>,
        <<-168000, 71500>> >> >>

\* the least integer not below n / d, for d > 0
CeilDiv(n, d) == -((-n) \div d)

\* x < (xj - xi) * (y - yi) / (yj - yi) + xi, for integers and yj # yi
LeftOfEdge(x, y, xi, yi, xj, yj) ==
  IF yj > yi
    THEN x - xi < CeilDiv((xj - xi) * (y - yi), yj - yi)
    ELSE x - xi < CeilDiv((xi - xj) * (y - yi), yi - yj)

\* the edges (i, j) of the loop: j is the point before i, the last one for
\* the first; the edge is crossed by the ray from the point to the east
Intersect(x, y, polygon, i) ==
  LET j == IF i = 1 THEN Len(polygon) ELSE i - 1
      xi == polygon[i][1]
      yi == polygon[i][2]
      xj == polygon[j][1]
      yj == polygon[j][2]
  IN  ((yi > y) # (yj > y)) /\ LeftOfEdge(x, y, xi, yi, xj, yj)

\* isInside after the loop: toggled once per crossed edge
isPointInPolygon(x, y, polygon) ==
  Cardinality({i \in 1..Len(polygon) : Intersect(x, y, polygon, i)}) % 2 = 1

isLand(lat, lng) ==
  \E k \in 1..Len(ARCTIC_LANDMASSES) :
    isPointInPolygon(lng, lat, ARCTIC_LANDMASSES[k])

\* sin of 0, 1, ..., 90 degrees, in thousandths
SIN_TABLE ==
  <<0, 17, 35, 52, 70, 87, 105, 122, 139, 156, 174, 191, 208, 225, 242,
    259, 276, 292, 309, 326, 342, 358, 375, 391, 407, 423, 438, 454, 469,
    485, 500, 515, 530, 545, 559, 574, 588, 602, 616, 629, 643, 656, 669,
    682, 695, 707, 719, 731, 743, 755, 766, 777, 788, 799, 809, 819, 829,
    839, 848, 857, 866, 875, 883, 891, 899, 906, 914, 921, 927, 934, 940,
    946, 951, 956, 961, 966, 970, 974, 978, 982, 985, 988, 990, 993, 995,
    996, 998, 999, 999, 1000, 1000>>

\* Math.sin and Math.cos of a whole number of degrees, in thousandths
SinDeg(deg) ==
  LET d == deg % 360
  IN  IF d <= 90 THEN SIN_TABLE[d + 1]
      ELSE IF d <= 180 THEN SIN_TABLE[180 - d + 1]
      ELSE IF d <= 270 THEN -SIN_TABLE[d - 180 + 1]
      ELSE -SIN_TABLE[360 - d + 1]

CosDeg(deg) == SinDeg(deg + 90)

OpenRing(coords) == coords

\* coords.push(coords[0])
CloseRing(coords) == Append(coords, coords[1])

\* generatePolygon: a ring of 5 to 9 points around the centre, closed by its
\* first point; the angle (i / points) * 2 * PI is taken in whole degrees.
\* rnd.points, rnd.radius and rnd.scales are its values of Math.random()
generatePolygon(lat, lng, rnd) ==
  LET points == 5 + RandomIndex(rnd.points, 5)
      radius == 200 + (rnd.radius * 800) \div 1000
      Scale(r) == 500 + r \div 2
      coords ==
        [i \in 1..points |->
           LET angle == ((i - 1) * 360) \div points
           IN  <<lng + (SinDeg(angle) * radius * Scale(rnd.scales[2 * i]))
                          \div 1000000,
                 lat + (CosDeg(angle) * radius * Scale(rnd.scales[2 * i - 1]))
                          \div 1000000>>]
  IN  <<CloseRing(coords)>>

\* (Math.random() - 0.5) * 1.5, in thousandths of a degree
CentreOffset(r) == ((r - 500) * 3) \div 2

\* the centres of the detections of one call
MockCentres(satellitePos, rnd) ==
  IF rnd.detect < 400 THEN <<>>
  ELSE [i \in 1..(1 + RandomIndex(rnd.count, 2)) |->
          [lat |-> satellitePos.lat + CentreOffset(rnd.dets[i].lat),
           lng |-> satellitePos.lng + CentreOffset(rnd.dets[i].lng)]]

\* the literals of 0.75 + Math.random() * 0.24
CONFIDENCE_BASE == DoubleOf(75, 100)
CONFIDENCE_SPAN == DoubleOf(24, 100)

\* the values of Math.random() drawn for a confidence: 0, 0.5 and the two
\* largest values of a generator of 52 random bits, 1 - 2^-51 and 1 - 2^-52
ConfidenceDraws ==
  {DoubleZero, OneMinusTwoTo(1), OneMinusTwoTo(51), OneMinusTwoTo(52)}

\* 0.75 + Math.random() * 0.24 for each of the values drawn
MockConfidence ==
  [r \in ConfidenceDraws |-> FAdd(CONFIDENCE_BASE, FMul(r, CONFIDENCE_SPAN))]

ImpactAreaSwapped(land) == IF land THEN "Water" ELSE "Soil"

\* isLand(centerLat, centerLng) ? 'Почва' : 'Вода'
ImpactArea(land) == IF land THEN "Soil" ELSE "Water"

\* generateMockPollutionData: no detection for Math.random() < 0.4, else one
\* or two; clock is the value of Date.now()
generateMockPollutionData(satellitePos, clock, rnd) ==
  LET c == MockCentres(satellitePos, rnd)
  IN  [i \in 1..Len(c) |->
         [type |-> getRandomElement(POLLUTION_TYPES, rnd.dets[i].type),
          confidence |-> MockConfidence[rnd.dets[i].confidence],
          geometry |-> Polygon(generatePolygon(c[i].lat, c[i].lng,
                                               rnd.dets[i])),
          timestamp |-> clock,
          impactArea |-> ImpactArea(isLand(c[i].lat, c[i].lng)),
          hazardLevel |-> getRandomElement(HAZARD_LEVELS,
                                           rnd.dets[i].hazard)]]

----------------------------------------------------------------------------
(* Specification SpecGenerator: one call of generateMockPollutionData for a
   satellite position and values of Math.random() *)

\* satellite positions of the mock variant: its initial position, over the
\* open sea, inside Greenland, inside Svalbard, on the east coast of
\* Greenland and on the 180th meridian
MockPositions ==
  {[lat |-> 80000, lng |-> 0, heading |-> 45000],
   [lat |-> 88000, lng |-> 0, heading |-> 0],
   [lat |-> 75000, lng |-> -40000, heading |-> 90000],
   [lat |-> 79000, lng |-> 20000, heading |-> 180000],
   [lat |-> 81000, lng |-> -15500, heading |-> 270000],
   [lat |-> 70000, lng |-> 179500, heading |-> 45000]}

\* the values of Math.random() for the two coordinates of up to 9 points
ScaleDraws ==
  {[i \in 1..18 |-> 0], [i \in 1..18 |-> (i * 317) % 1000]}

\* the values of Math.random() for one detection
DetDraws ==
  [lat : {0, 999}, lng : {0, 999}, type : {0, 500, 999},
   confidence : ConfidenceDraws, points : {0, 250, 500, 750, 999},
   radius : {0, 999}, scales : ScaleDraws, hazard : {0, 500, 999}]

\* the values for the first detection of a call that returns two
FirstDraws == {d \in DetDraws : d.lat = d.lng /\ d.points = 999}

\* the values for the second detection of a call
SecondDraws ==
  {d \in DetDraws : /\ d.lat = d.lng /\ d.type = 500
                    /\ d.confidence = OneMinusTwoTo(1)
                    /\ d.points = 999 /\ d.radius = 0 /\ d.hazard = 0
                    /\ d.scales[1] = 0}

\* the values one call draws: one when it returns nothing, and else the
\* number of detections and the values of each
GeneratorDraws ==
  {[detect |-> a, count |-> 0, dets |-> <<>>] : a \in {0, 399}}
    \cup {[detect |-> a, count |-> b, dets |-> <<d1>>] :
            a \in {400, 999}, b \in {0, 499}, d1 \in DetDraws}
    \cup {[detect |-> a, count |-> b, dets |-> <<d1, d2>>] :
            a \in {400, 999}, b \in {500, 999},
            d1 \in FirstDraws, d2 \in SecondDraws}

InitGenerator ==
  /\ AdapterIdle
  /\ appState = Stopped
  /\ satellitePosition \in MockPositions
  /\ pollutionData = <<>>
  /\ logs = <<>>
  /\ filters = NoFilters
  /\ simulationIntervalRef = FALSE
  /\ scanCounterRef = 0
  /\ isAnalyzingRef = FALSE
  /\ patrolDirectionRef = "forward"
  /\ intervals = 0
  /\ pending = {}
  /\ callsStarted = 0
  /\ mergeOrder = <<>>
  /\ currentSatelliteImage = INITIAL_IMAGE
  /\ lastOp = "init"
  /\ now \in {0, 10000}
  /\ imageIndexRef = 0
  /\ analysisResult = <<>>
  /\ centres = <<>>
  /\ asyncSteps = NoSteps

\* const analysisResult = generateMockPollutionData(newPos)
generateCall ==
  /\ lastOp = "init"
  /\ \E rnd \in GeneratorDraws :
       /\ analysisResult' = generateMockPollutionData(satellitePosition,
                                                      now, rnd)
       /\ centres' = MockCentres(satellitePosition, rnd)
  /\ lastOp' = "generate"
  /\ UNCHANGED <<schedulerVars, filters, adapterVars, now, imageIndexRef,
                 asyncSteps>>

NextGenerator == generateCall

SpecGenerator == InitGenerator /\ [][NextGenerator]_vars

CONFIDENCE_TOP == DoubleOf(99, 100)

\* c < 0.99
BelowTop(c) == FLess(c, CONFIDENCE_TOP)

\* c <= 0.99
AtMostTop(c) == ~FLess(CONFIDENCE_TOP, c)

\* the detections of the call made: 0, 1 or 2; each has one ring of 6 to 10
\* points that ends with its first point, a confidence of at least 0.75 and
\* within the upper limit, one of the three kinds and one of the three hazard
\* levels, and the impact area Soil when its centre is inside a land polygon,
\* else Water
DetectionsWellFormed(WithinTop(_)) ==
  /\ Len(analysisResult) \in 0..2
  /\ Len(centres) = Len(analysisResult)
  /\ \A i \in 1..Len(analysisResult) :
       LET d == analysisResult[i]
           ring == d.geometry.coordinates[1]
       IN  /\ Len(d.geometry.coordinates) = 1
           /\ Len(ring) \in 6..10
           /\ ring[1] = ring[Len(ring)]
           /\ ~FLess(d.confidence, CONFIDENCE_BASE)
           /\ WithinTop(d.confidence)
           /\ d.type \in {"Chemical", "Oil", "Physical"}
           /\ d.hazardLevel \in {"Low", "Medium", "High"}
           /\ d.impactArea \in {"Soil", "Water"}
           /\ d.impactArea = "Soil"
                <=> isLand(centres[i].lat, centres[i].lng)

\* C32: a call returns 0, 1 or 2 detections; each has one ring of 6 to 10
\* points that ends with its first point, a confidence of at least 0.75 and
\* at most 0.99, one of the three kinds and one of the three hazard levels,
\* and the impact area Soil when its centre is inside a land polygon, else
\* Water
C32_MockDetectionsWellFormed ==
  lastOp = "generate" => DetectionsWellFormed(AtMostTop)

\* C32 as stated: the same with every confidence below 0.99
C32_ConfidenceBelowTop ==
  lastOp = "generate" => DetectionsWellFormed(BelowTop)

\* a call returned two detections, the first with a ring of 10 points and the
\* confidence 0.99 that the largest value of Math.random() gives, the second
\* with the confidence 0.87, over land inside Greenland
C32_Witness ==
  /\ lastOp = "generate"
  /\ Len(analysisResult) = 2
  /\ Len(analysisResult[1].geometry.coordinates[1]) = 10
  /\ analysisResult[1].confidence = CONFIDENCE_TOP
  /\ analysisResult[2].confidence = DoubleOf(87, 100)
  /\ analysisResult[1].geometry.coordinates[1][2]
       # analysisResult[1].geometry.coordinates[1][1]
  /\ analysisResult[2].impactArea = "Soil"
  /\ centres[2].lng < -35000 /\ centres[2].lng > -45000
  /\ centres[2].lat > 74000 /\ centres[2].lat < 76000

----------------------------------------------------------------------------
(* The synthetic (mock) scheduler: src/components/MonitorPage.tsx, first
   component (lines 1-196). Its state has the names of the state of the
   classification-service variant; the image is one of SATELLITE_IMAGES, the
   detections carry the timestamp of their generation, and callsStarted
   counts the scans made. *)

SATELLITE_IMAGES == <<"photo-1549144511", "photo-1579033423729",
                      "photo-1444492417251", "photo-1579586337278">>

\* Date.now() - p.timestamp < 600000
PRUNE_HORIZON_MS == 600000

\* window.setInterval(runSimulationStep, 10000)
MOCK_INTERVAL_MS == 10000

\* bound on the number of scans of a behaviour of the mock variant
MaxMockScans == 4

MOCK_START_POSITION == [lat |-> 80000, lng |-> 0, heading |-> 45000]

MockSnapshot ==
  [appState |-> appState, satellitePosition |-> satellitePosition,
   pollutionData |-> pollutionData, logs |-> logs,
   simulationIntervalRef |-> simulationIntervalRef, intervals |-> intervals,
   currentSatelliteImage |-> currentSatelliteImage,
   imageIndexRef |-> imageIndexRef, analysisResult |-> analysisResult,
   centres |-> centres, callsStarted |-> callsStarted]

\* the updater of setSatellitePosition up to newPos: heading with a random
\* wobble, steered back into the band of 70 to 88 degrees, one step of 0.8
\* degrees, over the pole and around the 180th meridian. The trigonometry is
\* taken at whole degrees
MockMove(prevPos, rnd) ==
  LET speed == 800
      wobbled == prevPos.heading + (rnd.wobble - 500) * 15
      steered ==
        IF prevPos.lat > 88000
          THEN IF wobbled < 90000 \/ wobbled > 270000
                 THEN wobbled + 45000 ELSE wobbled
        ELSE IF prevPos.lat < 70000
          THEN IF wobbled > 90000 /\ wobbled < 270000
                 THEN wobbled + (IF rnd.turn < 500 THEN -45000 ELSE 45000)
                 ELSE wobbled
        ELSE wobbled
      deg == steered \div 1000
      latChange == (CosDeg(deg) * speed) \div 1000
      lngChange == (SinDeg(deg) * speed)
                     \div Max(100, CosDeg(prevPos.lat \div 1000))
      lat1 == prevPos.lat + latChange
      lng1 == prevPos.lng + lngChange
      overPole == lat1 > 90000
      lat2 == IF overPole THEN 180000 - lat1 ELSE lat1
      lng2 == IF overPole THEN lng1 + 180000 ELSE lng1
      heading2 == IF overPole THEN steered + 180000 ELSE steered
      lng3 == IF lng2 > 180000 THEN lng2 - 360000 ELSE lng2
      lng4 == IF lng3 < -180000 THEN lng3 + 360000 ELSE lng3
  IN  [lat |-> lat2, lng |-> lng4, heading |-> (heading2 + 360000) % 360000]

FreshAlways(clock, p) == TRUE

\* Date.now() - p.timestamp < 600000
Fresh(clock, p) == clock - p.timestamp < PRUNE_HORIZON_MS

\* [...prev.filter(p => Date.now() - p.timestamp < 600000), ...analysisResult]
PruneAndAppend(prev, result, clock) ==
  LET Kept(p) == Fresh(clock, p)
  IN  SelectSeq(prev, Kept) \o result

\* runSimulationStep of the mock variant with the updater it passes to
\* setSatellitePosition; the state updates of both are applied in one render
mockRunSimulationStep(s, clock, rnd) ==
  LET s1 == addLog(s, "scan", "info")
      newPos == MockMove(s.satellitePosition, rnd)
      s2 == addLog(s1, "moved", "info")
      index == (s.imageIndexRef + 1) % Len(SATELLITE_IMAGES)
      s3 == addLog(addLog(s2, "image", "info"), "generating", "info")
      result == generateMockPollutionData(newPos, clock, rnd)
      s4 == IF Len(result) > 0
              THEN addLog([s3 EXCEPT !.pollutionData =
                                       PruneAndAppend(@, result, clock)],
                          "detected", "success")
              ELSE addLog(s3, "none", "info")
  IN  [s4 EXCEPT !.appState = Idle,
                 !.satellitePosition = newPos,
                 !.imageIndexRef = index,
                 !.currentSatelliteImage = SATELLITE_IMAGES[index + 1],
                 !.analysisResult = result,
                 !.centres = MockCentres(newPos, rnd),
                 !.callsStarted = @ + 1]

MockCommit(s, clock, op) ==
  /\ appState' = s.appState
  /\ satellitePosition' = s.satellitePosition
  /\ pollutionData' = s.pollutionData
  /\ logs' = s.logs
  /\ simulationIntervalRef' = s.simulationIntervalRef
  /\ intervals' = s.intervals
  /\ currentSatelliteImage' = s.currentSatelliteImage
  /\ imageIndexRef' = s.imageIndexRef
  /\ analysisResult' = s.analysisResult
  /\ centres' = s.centres
  /\ callsStarted' = s.callsStarted
  /\ now' = clock
  /\ lastOp' = op
  /\ UNCHANGED <<scanCounterRef, isAnalyzingRef, patrolDirectionRef, pending,
                 mergeOrder, filters, adapterVars, asyncSteps>>

\* the values of Math.random() of one step: no detection, one, or two
MockStepDraws ==
  LET d1 == [lat |-> 0, lng |-> 999, type |-> 500,
             confidence |-> DoubleZero,
             points |-> 0, radius |-> 0, scales |-> [i \in 1..18 |-> 0],
             hazard |-> 999]
      d2 == [d1 EXCEPT !.type = 0, !.confidence = OneMinusTwoTo(52),
                       !.hazard = 0]
  IN  {[wobble |-> w, turn |-> w, detect |-> a, count |-> b,
        dets |-> <<d1, d2>>] :
         w \in {0, 999}, a \in {0, 400}, b \in {0, 999}}

\* the time since the previous event: the timer period, or longer when the
\* timer is late
MockDelays == {MOCK_INTERVAL_MS, PRUNE_HORIZON_MS \div 2}

InitMock ==
  /\ AdapterIdle
  /\ appState = Stopped
  /\ satellitePosition = MOCK_START_POSITION
  /\ pollutionData = <<>>
  /\ logs = <<>>
  /\ filters = NoFilters
  /\ simulationIntervalRef = FALSE
  /\ scanCounterRef = 0
  /\ isAnalyzingRef = FALSE
  /\ patrolDirectionRef = "forward"
  /\ intervals = 0
  /\ pending = {}
  /\ callsStarted = 0
  /\ mergeOrder = <<>>
  /\ currentSatelliteImage = SATELLITE_IMAGES[1]
  /\ lastOp = "init"
  /\ now = 0
  /\ imageIndexRef = 0
  /\ analysisResult = <<>>
  /\ centres = <<>>
  /\ asyncSteps = NoSteps

\* the START button (enabled while Stopped): log, Idle, a first step, and the
\* interval
mockStartSimulation ==
  /\ appState = Stopped
  /\ callsStarted < MaxMockScans
  /\ \E d \in MockDelays, rnd \in MockStepDraws :
       LET s1 == addLog(MockSnapshot, "start", "success")
           s2 == mockRunSimulationStep(s1, now + d, rnd)
       IN  MockCommit([s2 EXCEPT !.simulationIntervalRef = TRUE,
                                 !.intervals = @ + 1],
                      now + d, "mockStart")

\* the STOP button (enabled while not Stopped)
mockStopSimulation ==
  /\ appState # Stopped
  /\ LET s1 == addLog(MockSnapshot, "stop", "info")
         s2 == [s1 EXCEPT !.appState = Stopped]
     IN  MockCommit(IF s2.simulationIntervalRef
                      THEN [s2 EXCEPT !.intervals = @ - 1,
                                      !.simulationIntervalRef = FALSE]
                      ELSE s2,
                    now, "mockStop")

\* the interval fires
mockTick ==
  /\ intervals > 0
  /\ callsStarted < MaxMockScans
  /\ \E d \in MockDelays, rnd \in MockStepDraws :
       MockCommit(mockRunSimulationStep(MockSnapshot, now + d, rnd),
                  now + d, "mockTick")

NextMock == mockStartSimulation \/ mockStopSimulation \/ mockTick

SpecMock == InitMock /\ [][NextMock]_vars

RECURSIVE IsSubsequence(_, _)
\* a is b with some entries left out
IsSubsequence(a, b) ==
  IF a = <<>> THEN TRUE
  ELSE IF b = <<>> THEN FALSE
  ELSE IF a[1] = b[1] THEN IsSubsequence(Tail(a), Tail(b))
  ELSE IsSubsequence(a, Tail(b))

\* C31: after a scan of the mock variant that appended detections no stored
\* detection is older than 600000 ms, the older detections still stored are
\* in the order they had, and the new detections are the end of the store; a
\* scan without detections leaves the store as it was
C31_PruneOnAppend ==
  [][lastOp' \in {"mockStart", "mockTick"} =>
       IF analysisResult' = <<>>
         THEN pollutionData' = pollutionData
         ELSE LET n == Len(pollutionData') - Len(analysisResult')
              IN  /\ n >= 0
                  /\ SubSeq(pollutionData', n + 1, Len(pollutionData'))
                       = analysisResult'
                  /\ IsSubsequence(SubSeq(pollutionData', 1, n),
                                   pollutionData)
                  /\ \A i \in 1..Len(pollutionData') :
                       now' - pollutionData'[i].timestamp
                         <= PRUNE_HORIZON_MS]_vars

\* a scan appended its detections behind two older ones, of two earlier scans,
\* that were still fresh
C31_Witness ==
  /\ lastOp = "mockTick"
  /\ analysisResult # <<>>
  /\ Len(pollutionData) >= 3
  /\ pollutionData[1].timestamp < pollutionData[2].timestamp
  /\ pollutionData[2].timestamp < now
  /\ pollutionData[Len(pollutionData)].timestamp = now

----------------------------------------------------------------------------
(* The interval of the classification-service scheduler: property of Spec *)

\* C33: at most one interval is armed, and one is armed exactly while
\* ScanState is not Stopped
C33_OneTimerWhileRunning ==
  /\ intervals <= 1
  /\ intervals = 1 <=> appState # Stopped
  /\ simulationIntervalRef <=> intervals = 1

\* the effect has run again for the change to Analyzing made by a due scan:
\* the interval it cleared and the one it armed are the only ones there were
C33_Witness ==
  /\ lastOp = "tick"
  /\ appState = Analyzing
  /\ pending # {}
  /\ intervals = 1
  /\ simulationIntervalRef

----------------------------------------------------------------------------
(* The filtered view and the store: property of SpecFilter *)

\* C34: the filtered view is the store with some entries left out, in the
\* order of the store; with no facet ticked it is the whole store; every
\* entry of the view is an entry of the store
C34_ViewIsSubsequenceOfStore ==
  /\ IsSubsequence(filteredPollutionData, pollutionData)
  /\ (\A c \in DOMAIN filters : filters[c] = <<>>)
       => filteredPollutionData = pollutionData
  /\ \A i \in 1..Len(filteredPollutionData) :
       \E j \in 1..Len(pollutionData) :
         pollutionData[j] = filteredPollutionData[i]

\* with a kind ticked, the view shows the second of two stored detections
\* and not the first
C34_Witness ==
  /\ lastOp = "toggle"
  /\ filters.type # <<>>
  /\ Len(pollutionData) = 2
  /\ Len(filteredPollutionData) = 1
  /\ filteredPollutionData[1] = pollutionData[2]
  /\ pollutionData[1] # pollutionData[2]

----------------------------------------------------------------------------
(* The legacy App scheduler with the live video feed: src/unnamed/part_005.
   runSimulationStep is async and has no in-flight guard: it is suspended at
   await captureFrame() and at await analyzeImage(), and any number of steps
   can be suspended. callsStarted counts the steps started. *)

\* Date.now() - p.timestamp < 60000
LEGACY_HORIZON_MS == 60000

\* window.setInterval(runSimulationStep, 10000)
LEGACY_INTERVAL_MS == 10000

\* bound on the number of steps a behaviour of the legacy App starts
MaxLegacySteps == 3

LEGACY_START_POSITION == [lat |-> 80000, lng |-> 0, heading |-> 0]

LegacySnapshot ==
  [appState |-> appState, satellitePosition |-> satellitePosition,
   pollutionData |-> pollutionData, logs |-> logs,
   simulationIntervalRef |-> simulationIntervalRef, intervals |-> intervals,
   asyncSteps |-> asyncSteps, callsStarted |-> callsStarted]

LegacyCommit(s, clock, op) ==
  /\ appState' = s.appState
  /\ satellitePosition' = s.satellitePosition
  /\ pollutionData' = s.pollutionData
  /\ logs' = s.logs
  /\ simulationIntervalRef' = s.simulationIntervalRef
  /\ intervals' = s.intervals
  /\ asyncSteps' = s.asyncSteps
  /\ callsStarted' = s.callsStarted
  /\ now' = clock
  /\ lastOp' = op
  /\ UNCHANGED <<scanCounterRef, isAnalyzingRef, patrolDirectionRef, pending,
                 mergeOrder, currentSatelliteImage, filters, adapterVars,
                 imageIndexRef, analysisResult, centres>>

\* the updater of setSatellitePosition; r is its value of Math.random()
LegacyMove(prev, r) ==
  [lat |-> Max(75000, Min(85000, prev.lat + (r - 500) * 2)),
   lng |-> JsRem(prev.lng + 5000, 180000),
   heading |-> JsRem(prev.heading + 15000, 360000)]

\* an entry without a timestamp (the service sends none) is not kept:
\* Date.now() - undefined is NaN
LegacyFresh(clock, p) ==
  "timestamp" \in DOMAIN p /\ clock - p.timestamp < LEGACY_HORIZON_MS

\* [...prev.filter(p => Date.now() - p.timestamp < 60000), ...result]
LegacyPruneAndAppend(prev, result, clock) ==
  LET Kept(p) == LegacyFresh(clock, p)
  IN  SelectSeq(prev, Kept) \o result

\* the mock detection of the catch block
mockPollution(clock) ==
  <<[type |-> "Mock Oil Slick", confidence |-> 850,
     geometry |-> Polygon(<<5>>), timestamp |-> clock]>>

\* runSimulationStep up to await captureFrame()
legacyStepBegins(s, r) ==
  LET s1 == addLog(s, "scan", "info")
      s2 == addLog(s1, "capturing", "info")
      s3 == addLog(s2, "moved", "info")
  IN  [s3 EXCEPT !.appState = Scanning,
                 !.satellitePosition = LegacyMove(@, r),
                 !.asyncSteps.capture = @ + 1,
                 !.callsStarted = @ + 1]

\* currentAppState === AppState.Stopped ? AppState.Stopped : AppState.Idle
LegacyFinallyState(current) == IF current = Stopped THEN Stopped ELSE Idle

\* the catch block and the finally block
legacyCatchFinally(s, clock) ==
  LET s1 == addLog(s, "failed", "error")
  IN  [s1 EXCEPT !.pollutionData =
                   LegacyPruneAndAppend(@, mockPollution(clock), clock),
                 !.appState = LegacyFinallyState(@)]

\* the step resumes after await captureFrame(): a frame, or a rejection
legacyCaptureSettles(s, clock, ok) ==
  IF ok
    THEN LET s1 == addLog(s, "analyzing", "info")
         IN  [s1 EXCEPT !.appState = Analyzing,
                        !.asyncSteps.capture = @ - 1,
                        !.asyncSteps.analyze = @ + 1]
    ELSE legacyCatchFinally([s EXCEPT !.asyncSteps.capture = @ - 1], clock)

\* the step resumes after await analyzeImage()
legacyAnalysisSettles(s, clock, outcome) ==
  LET s0 == [s EXCEPT !.asyncSteps.analyze = @ - 1]
  IN  IF ~outcome.ok THEN legacyCatchFinally(s0, clock)
      ELSE LET s1 == IF Len(outcome.result) > 0
                       THEN addLog([s0 EXCEPT !.pollutionData =
                                      LegacyPruneAndAppend(@, outcome.result,
                                                           clock)],
                                   "detected", "success")
                       ELSE addLog(s0, "none", "info")
           IN  [s1 EXCEPT !.appState = LegacyFinallyState(@)]

InitLegacy ==
  /\ AdapterIdle
  /\ appState = Stopped
  /\ satellitePosition = LEGACY_START_POSITION
  /\ pollutionData = <<>>
  /\ logs = <<>>
  /\ filters = NoFilters
  /\ simulationIntervalRef = FALSE
  /\ scanCounterRef = 0
  /\ isAnalyzingRef = FALSE
  /\ patrolDirectionRef = "forward"
  /\ intervals = 0
  /\ pending = {}
  /\ callsStarted = 0
  /\ mergeOrder = <<>>
  /\ currentSatelliteImage = INITIAL_IMAGE
  /\ lastOp = "init"
  /\ now = 0
  /\ imageIndexRef = 0
  /\ analysisResult = <<>>
  /\ centres = <<>>
  /\ asyncSteps = NoSteps

\* the START button (enabled while Stopped): log, Idle, a first step, and the
\* interval
legacyStartSimulation ==
  /\ appState = Stopped
  /\ callsStarted < MaxLegacySteps
  /\ \E r \in {0, 999} :
       LET s1 == addLog(LegacySnapshot, "start", "success")
           s2 == legacyStepBegins(s1, r)
       IN  LegacyCommit([s2 EXCEPT !.simulationIntervalRef = TRUE,
                                   !.intervals = @ + 1],
                        now, "legacyStart")

\* the STOP button (enabled while not Stopped)
legacyStopSimulation ==
  /\ appState # Stopped
  /\ LET s1 == addLog(LegacySnapshot, "stop", "info")
         s2 == [s1 EXCEPT !.appState = Stopped]
     IN  LegacyCommit(IF s2.simulationIntervalRef
                        THEN [s2 EXCEPT !.intervals = @ - 1,
                                        !.simulationIntervalRef = FALSE]
                        ELSE s2,
                      now, "legacyStop")

\* the interval fires
legacyTick ==
  /\ intervals > 0
  /\ callsStarted < MaxLegacySteps
  /\ \E r \in {0, 999} :
       LegacyCommit(legacyStepBegins(LegacySnapshot, r),
                    now + LEGACY_INTERVAL_MS, "legacyTick")

\* the promise of captureFrame settles for one of the suspended steps
legacyCapture ==
  /\ asyncSteps.capture > 0
  /\ \E ok \in BOOLEAN :
       LegacyCommit(legacyCaptureSettles(LegacySnapshot, now, ok),
                    now, IF ok THEN "frame" ELSE "noFrame")

\* the promise of analyzeImage settles for one of the suspended steps
legacyAnalysis ==
  /\ asyncSteps.analyze > 0
  /\ \E outcome \in Outcomes :
       LegacyCommit(legacyAnalysisSettles(LegacySnapshot, now, outcome),
                    now, IF outcome.ok THEN "analysed" ELSE "analysisFailed")

NextLegacy ==
  \/ legacyStartSimulation
  \/ legacyStopSimulation
  \/ legacyTick
  \/ legacyCapture
  \/ legacyAnalysis

SpecLegacy == InitLegacy /\ [][NextLegacy]_vars

\* C35: in the legacy App, from a state in which ScanState is Stopped only
\* start() leads to a state in which it is not Stopped
C35_StoppedUntilStart ==
  [][(appState = Stopped /\ lastOp' # "legacyStart")
       => appState' = Stopped]_vars

----------------------------------------------------------------------------
(* The end of the retry loop of analyzeImage: property of SpecAdapter *)

\* C36: the error after the loop is never thrown: a call waits for a retry
\* only with attempt < MAX_RETRIES - 1, so that the loop test after the wait
\* holds, and every other iteration returns or throws inside the loop
C36_FallbackNeverRaised ==
  /\ adapterOutcome.kind # "fallback"
  /\ adapterPc = "sleep" => attempt < MAX_RETRIES - 1
  /\ attempt < MAX_RETRIES

\* the last iteration of the loop was refused for the rate limit, after the
\* waits of all the earlier ones: the call threw the rate-limit error inside
\* the loop
C36_Witness ==
  /\ adapterPc = "thrown"
  /\ adapterOutcome.kind = "rateLimit"
  /\ attempt = MAX_RETRIES - 1
  /\ Len(delays) = MAX_RETRIES - 1
  /\ Len(replies) = MAX_RETRIES

====
